---- MODULE Spec2Model ----
(***************************************************************************)
(* Model of src/index.tsx: the dump encoders toHexDump, toIntelHex and     *)
(* toSrec, and the React App that calls them from handleDownload.          *)
(*                                                                         *)
(* Text is a sequence of one-character strings, so that formatting         *)
(* (toString(16), padStart, toUpperCase, join) is computed and can be      *)
(* parsed back.  A JavaScript number that holds an address is the record   *)
(* [hi, lo] standing for hi * 65536 + lo with lo in 0..65535 (exact        *)
(* integer arithmetic; the 32-bit operators >> and & see hi % 65536).      *)
(***************************************************************************)
EXTENDS Integers, Sequences, FiniteSets, TLC

\* ------------------------------------------------------------------ bounds
\* Longest byte buffer handed to an encoder under Spec (three chunks).
MaxLen == 33
\* Most lines the App's log holds before logging handlers are disabled.
MaxLog == 3

\* Most connect() calls in progress at once.
MaxConnects == 1
\* Most handleFlash/handleErase/handleDump calls in progress at once.
MaxOps == 2
\* Most FileReader reads in progress at once.
MaxLoads == 1
\* Passes of handleFlash's progress loop after the first; the source runs the
\* same loop with totalSteps = 100 (line 138).
MaxFlashSteps == 2

\* -------------------------------------------------------- program constants
\* The chunk length of all three encoders (i += 16, slice(i, i + 16)).
ChunkSize == 16
\* 2^16, the radix of the [hi, lo] number representation.
Word == 256 * 256

\* ------------------------------------------------------- JavaScript numbers
Num(h, l) == [hi |-> h, lo |-> l]

\* a + n for an address a and a small integer n >= 0.
NumAdd(a, n) ==
    LET s == a.lo + n
    IN  Num(a.hi + (s \div Word), s % Word)

\* (addr >> shift) & 0xff for shift in {0, 8, 16, 24}: >> first converts addr
\* to a signed 32-bit integer (keeping hi % 65536), then shifts arithmetically.
ShrAnd(addr, shift) ==
    CASE shift = 0  -> addr.lo % 256
      [] shift = 8  -> addr.lo \div 256
      [] shift = 16 -> (addr.hi % Word) % 256
      [] shift = 24 -> (addr.hi % Word) \div 256

\* NaN, the result of parseInt on a string with no leading digit.
NaN == [hi |-> 0, lo |-> 0, nan |-> TRUE]
IsNaN(x) == "nan" \in DOMAIN x

\* -a
NumNeg(a) ==
    IF a.lo = 0 THEN Num(0 - a.hi, 0) ELSE Num((0 - a.hi) - 1, Word - a.lo)

\* a * radix + d, one digit step of parseInt.
NumMulAdd(a, radix, d) ==
    LET s == a.lo * radix + d
    IN  Num(a.hi * radix + (s \div Word), s % Word)

\* x | 0: NaN becomes 0, any other number its low 32 bits read as signed.
ToInt32(x) ==
    IF IsNaN(x) THEN 0
    ELSE IF x.hi % Word >= Word \div 2
         THEN ((x.hi % Word) - Word) * Word + x.lo
         ELSE (x.hi % Word) * Word + x.lo

\* x || 0 for a number x: NaN and 0 are falsy.
OrZero(x) == IF IsNaN(x) \/ (x.hi = 0 /\ x.lo = 0) THEN Num(0, 0) ELSE x

\* ~x on a 32-bit integer.
BitNot(x) == (0 - x) - 1

\* x & 0xff.
And255(x) == x % 256

\* -------------------------------------------------------- string formatting
HexDigits ==
    << "0", "1", "2", "3", "4", "5", "6", "7",
       "8", "9", "a", "b", "c", "d", "e", "f" >>

RECURSIVE toString16(_)
\* n.toString(16) for an integer n >= 0: lowercase, no leading zeros.
toString16(n) ==
    IF n < 16 THEN << HexDigits[n + 1] >>
    ELSE toString16(n \div 16) \o << HexDigits[(n % 16) + 1] >>

RECURSIVE padStart(_, _, _)
\* s.padStart(n, c)
padStart(s, n, c) ==
    IF Len(s) >= n THEN s ELSE padStart(<< c >> \o s, n, c)

\* Variant of Hex2: the padStart(2, "0") left out.
Hex2Unpadded(b) == toString16(b)

\* b.toString(16).padStart(2, "0")
Hex2(b) == padStart(toString16(b), 2, "0")

UpperChar(c) ==
    CASE c = "a" -> "A" [] c = "b" -> "B" [] c = "c" -> "C"
      [] c = "d" -> "D" [] c = "e" -> "E" [] c = "f" -> "F"
      [] c = "x" -> "X"
      [] OTHER -> c

\* s.toUpperCase()
toUpperCase(s) == [k \in 1..Len(s) |-> UpperChar(s[k])]

RECURSIVE join(_, _)
\* parts.join(sep)
join(parts, sep) ==
    IF Len(parts) = 0 THEN << >>
    ELSE IF Len(parts) = 1 THEN parts[1]
    ELSE parts[1] \o sep \o join(Tail(parts), sep)

RECURSIVE reduceSum(_, _)
\* data.reduce((a, b) => a + b, init)
reduceSum(data, init) ==
    IF Len(data) = 0 THEN init
    ELSE reduceSum(Tail(data), init + Head(data))

\* Variant of slice: bytes.slice(i, i + 15).
sliceShort(bytes, i) ==
    SubSeq(bytes, i + 1,
           IF i + ChunkSize - 1 < Len(bytes) THEN i + ChunkSize - 1 ELSE Len(bytes))

\* bytes.slice(i, i + 16) with i counted from 0.
slice(bytes, i) ==
    SubSeq(bytes, i + 1, IF i + ChunkSize < Len(bytes) THEN i + ChunkSize ELSE Len(bytes))

\* data.map(b => b.toString(16).padStart(2, "0"))
mapHex2(data) == [k \in 1..Len(data) |-> Hex2(data[k])]

NL == << "\n" >>

\* ----------------------------------------------------------------- toHexDump
RECURSIVE toHexDumpLoop(_, _, _)
\* for (let i = 0; i < bytes.length; i += 16) { ...; lines.push(hex); }
toHexDumpLoop(bytes, i, lines) ==
    IF i < Len(bytes)
    THEN toHexDumpLoop(bytes, i + ChunkSize,
                       Append(lines, join(mapHex2(slice(bytes, i)), << " " >>)))
    ELSE lines

\* Variant of toHexDump: the result upper-cased.
toHexDumpUpperCase(bytes) ==
    toUpperCase(join(toHexDumpLoop(bytes, 0, << >>), NL))

toHexDump(bytes) == join(toHexDumpLoop(bytes, 0, << >>), NL)

\* ---------------------------------------------------------------- toIntelHex
\* Variant of IhexChecksum: the one's complement, (~sum) & 0xff.
IhexChecksumNoIncrement(sum) == And255(BitNot(sum))

\* (~sum + 1) & 0xff
IhexChecksum(sum) == And255(BitNot(sum) + 1)

\* Variant of IhexRecord: the toUpperCase() left out.
IhexRecordLowerCase(sl, addr) ==
    LET len == Len(sl)
        hi  == ShrAnd(addr, 8)
        lo  == ShrAnd(addr, 0)
        sum == reduceSum(sl, len + hi + lo + 0)
    IN  << ":" >> \o Hex2(len) \o Hex2(hi) \o Hex2(lo) \o << "0", "0" >>
        \o join(mapHex2(sl), << >>) \o Hex2(And255(BitNot(sum) + 1))

\* One pass of the loop body: the record pushed for the chunk sl at addr.
IhexRecord(sl, addr) ==
    LET len == Len(sl)
        hi  == ShrAnd(addr, 8)
        lo  == ShrAnd(addr, 0)
        sum == reduceSum(sl, len + hi + lo + 0)
        cks == Hex2(IhexChecksum(sum))
        dataHex == join(mapHex2(sl), << >>)
    IN  toUpperCase(<< ":" >> \o Hex2(len) \o Hex2(hi) \o Hex2(lo)
                    \o << "0", "0" >> \o dataHex \o cks)

\* recs.push(":00000001FF")
IhexEof == << ":", "0", "0", "0", "0", "0", "0", "0", "1", "F", "F" >>

RECURSIVE toIntelHexLoop(_, _, _, _)
\* for (let i = 0; i < bytes.length; i += 16) { ...; addr += len; }
toIntelHexLoop(bytes, i, addr, recs) ==
    IF i < Len(bytes)
    THEN LET sl == slice(bytes, i)
         IN  toIntelHexLoop(bytes, i + ChunkSize, NumAdd(addr, Len(sl)),
                            Append(recs, IhexRecord(sl, addr)))
    ELSE recs

toIntelHex(bytes, baseAddr) ==
    join(Append(toIntelHexLoop(bytes, 0, baseAddr, << >>), IhexEof), NL)

\* -------------------------------------------------------------------- toSrec
\* Variant of SrecAddrBytes: least significant byte first.
SrecAddrBytesLittleEndian(addr) ==
    << ShrAnd(addr, 0), ShrAnd(addr, 8), ShrAnd(addr, 16), ShrAnd(addr, 24) >>

\* [(addr >> 24) & 0xff, (addr >> 16) & 0xff, (addr >> 8) & 0xff, addr & 0xff]
SrecAddrBytes(addr) ==
    << ShrAnd(addr, 24), ShrAnd(addr, 16), ShrAnd(addr, 8), ShrAnd(addr, 0) >>

\* Variant of SrecCount: data.length, the checksum byte not counted.
SrecCountNoChecksumByte(data) == Len(data)

\* const count = data.length + 1
SrecCount(data) == Len(data) + 1

\* Variant of SrecChecksum: the two's complement, (~sum + 1) & 0xff.
SrecChecksumTwosComplement(data, count) ==
    And255(BitNot(And255(reduceSum(data, count))) + 1)

\* sum = data.reduce((a, b) => a + b, count) & 0xff;  cks = (~sum) & 0xff
SrecChecksum(data, count) == And255(BitNot(And255(reduceSum(data, count))))

\* One pass of the loop body: the line pushed for the chunk sl at offset i.
\* count and body are upper-cased; the checksum digits are appended as
\* toString(16) gives them.
SrecRecord(sl, addr) ==
    LET data  == SrecAddrBytes(addr) \o sl
        count == SrecCount(data)
        cks   == SrecChecksum(data, count)
        body  == join(mapHex2(data), << >>)
    IN  << "S", "3" >> \o toUpperCase(Hex2(count)) \o toUpperCase(body) \o Hex2(cks)

\* lines.push("S70500000000FA")
SrecTerminator ==
    << "S", "7", "0", "5", "0", "0", "0", "0", "0", "0", "0", "0", "F", "A" >>

RECURSIVE toSrecLoop(_, _, _, _)
\* for (let i = 0; i < bytes.length; i += 16) { const addr = baseAddr + i; ... }
toSrecLoop(bytes, i, baseAddr, lines) ==
    IF i < Len(bytes)
    THEN toSrecLoop(bytes, i + ChunkSize, baseAddr,
                    Append(lines, SrecRecord(slice(bytes, i), NumAdd(baseAddr, i))))
    ELSE lines

toSrec(bytes, baseAddr) ==
    join(Append(toSrecLoop(bytes, 0, baseAddr, << >>), SrecTerminator), NL)

\* ----------------------------------------------------------- encoder inputs
\* Byte buffers: [(k * mul + off) & 0xff : k < len].  mul = 37, off = 0x5a is
\* the App's mock dump; mul = 17, off = 0xAA starts AA BB; mul = 1, off = 0
\* is 00 01 02 ...
Multipliers == {1, 17, 37}
Offsets == {0, 90, 170}
Pattern(mul, off, len) == [k \in 1..len |-> ((k - 1) * mul + off) % 256]

\* Base addresses: 0, 0x100, 0xFFF0, 0x1FFF8, 0x8000000, 0xFFFFFFF0.
BaseAddrs ==
    { Num(0, 0), Num(0, 256), Num(0, 65520), Num(1, 65528),
      Num(2048, 0), Num(65535, 65520) }

VARIABLES
    bytes,      \* the Uint8Array last handed to an encoder
    baseAddr,   \* the baseAddr argument of that call
    encoder,    \* the encoder last applied, "none" before the first call
    text,       \* the string it returned
    connected,  \* App state: useState(false)
    format,     \* App state: the selected DumpFormat
    address,    \* App state: the address input's text
    length,     \* App state: the length, a number (or NaN)
    log,        \* App state: the log lines
    lastDownload, \* the blob last handed to downloadBlob, NoDownload before
    uncaught,   \* the error the last handleDownload call rejected with
    port,       \* serial UI: let port (line 29), "null" or "port"
    reader,     \* serial UI: let reader, "null" or "reader"
    writer,     \* serial UI: let writer, "null" or "writer"
    binaryData, \* serial UI: let binaryData, "null" or "data"
    connectText,     \* connectButton.textContent
    connectDisabled, \* connectButton.disabled
    flashDisabled,   \* flashButton.disabled
    eraseDisabled,   \* eraseButton.disabled
    dumpDisabled,    \* dumpButton.disabled
    progress,   \* the percentage the progress bar shows
    logged,     \* the lines the last step appended to the log element
    conns,      \* the connect() calls in progress: where each is suspended
    ops,        \* the handleFlash/handleErase/handleDump calls in progress
    loads       \* the FileReader reads in progress

encVars == << bytes, baseAddr, encoder, text >>
appVars == << connected, format, address, length, log, lastDownload, uncaught >>
connVars == << port, reader, writer >>
uiVars == << connectText, connectDisabled, flashDisabled, eraseDisabled, dumpDisabled >>
serialVars == << connVars, binaryData, uiVars, progress, logged, conns, ops, loads >>
vars == << encVars, appVars, serialVars >>

\* ------------------------------------------------------------------ parseInt
DigitValue(c) ==
    CASE c = "0" -> 0 [] c = "1" -> 1 [] c = "2" -> 2 [] c = "3" -> 3
      [] c = "4" -> 4 [] c = "5" -> 5 [] c = "6" -> 6 [] c = "7" -> 7
      [] c = "8" -> 8 [] c = "9" -> 9
      [] c \in {"a", "A"} -> 10 [] c \in {"b", "B"} -> 11
      [] c \in {"c", "C"} -> 12 [] c \in {"d", "D"} -> 13
      [] c \in {"e", "E"} -> 14 [] c \in {"f", "F"} -> 15
      [] OTHER -> 99

RECURSIVE StripLeadingSpace(_)
StripLeadingSpace(s) ==
    IF Len(s) > 0 /\ Head(s) = " " THEN StripLeadingSpace(Tail(s)) ELSE s

RECURSIVE ParseDigits(_, _, _, _)
\* The value of the longest prefix of s made of digits below radix; NaN when
\* that prefix is empty.
ParseDigits(s, radix, acc, seen) ==
    IF Len(s) = 0 \/ DigitValue(Head(s)) >= radix
    THEN IF seen THEN acc ELSE NaN
    ELSE ParseDigits(Tail(s), radix, NumMulAdd(acc, radix, DigitValue(Head(s))), TRUE)

\* parseInt(s, radix) for radix 10 or 16: leading blanks, a sign, for radix 16
\* a 0x prefix, then digits up to the first character that is none.
parseInt(s, radix) ==
    LET t == StripLeadingSpace(s)
        signed == Len(t) > 0 /\ t[1] \in {"+", "-"}
        u == IF signed THEN Tail(t) ELSE t
        v == IF radix = 16 /\ Len(u) >= 2 /\ u[1] = "0" /\ u[2] \in {"x", "X"}
             THEN Tail(Tail(u)) ELSE u
        m == ParseDigits(v, radix, Num(0, 0), FALSE)
    IN  IF IsNaN(m) THEN NaN
        ELSE IF signed /\ t[1] = "-" THEN NumNeg(m) ELSE m

\* ----------------------------------------------------------------- serial UI
\* An idle slot of ops.
NoOp == [kind |-> "none", pc |-> "idle", i |-> 0, n |-> 0]

\* The serial UI once the script has run: nothing connected, no file, and
\* setUIState(false) (line 270).
SerialInit ==
    /\ port = "null"
    /\ reader = "null"
    /\ writer = "null"
    /\ binaryData = "null"
    /\ connectText = "Connect"
    /\ connectDisabled = FALSE
    /\ flashDisabled = TRUE
    /\ eraseDisabled = TRUE
    /\ dumpDisabled = TRUE
    /\ progress = 0
    /\ logged = << >>
    /\ conns = [c \in 1..MaxConnects |-> "idle"]
    /\ ops = [o \in 1..MaxOps |-> NoOp]
    /\ loads = 0

\* Math.round(num / den) for num >= 0 and den > 0.
round(num, den) == (2 * num + den) \div (2 * den)

\* updateProgress(num / den): the bar shows the rounded percentage.
updateProgress(num, den) == progress' = round(num, den)

\* setUIState(isConnected, isBusy), reading binaryData as it is at the call.
setUIState(isConnected, isBusy) ==
    LET canPerformActions == isConnected /\ ~isBusy
    IN  /\ connectText' = IF isConnected THEN "Disconnect" ELSE "Connect"
        /\ connectDisabled' = isBusy
        /\ flashDisabled' = (~canPerformActions \/ binaryData = "null")
        /\ eraseDisabled' = ~canPerformActions
        /\ dumpDisabled' = ~canPerformActions

\* The slot a new connect() call takes: the lowest idle one.
FreeConn ==
    CHOOSE c \in 1..MaxConnects :
        conns[c] = "idle" /\ \A d \in 1..(c - 1) : conns[d] # "idle"

\* What no step of connect() touches.
ConnectFrame == UNCHANGED << encVars, appVars, binaryData, progress, ops, loads >>

\* connect() suspends at an await without having changed anything.
suspendConnect(c, pc) ==
    /\ conns' = [conns EXCEPT ![c] = pc]
    /\ logged' = << >>
    /\ UNCHANGED << connVars, uiVars >>

\* The finally block of the disconnect branch, then the return.
disconnectFinally(c) ==
    /\ port' = "null"
    /\ reader' = "null"
    /\ writer' = "null"
    /\ logged' = << "Disconnected." >>
    /\ setUIState(FALSE, FALSE)
    /\ conns' = [conns EXCEPT ![c] = "idle"]

\* The disconnect branch from `await port.close()` on: calling close on a
\* port that has become null throws a TypeError, which the catch swallows.
disconnectPort(c) ==
    IF port # "null" THEN suspendConnect(c, "portClose") ELSE disconnectFinally(c)

\* The disconnect branch from `if (writer)` on.
disconnectWriter(c) ==
    IF writer # "null" THEN suspendConnect(c, "close") ELSE disconnectPort(c)

\* The disconnect branch from `if (reader)` on.
disconnectReader(c) ==
    IF reader # "null" THEN suspendConnect(c, "cancel") ELSE disconnectWriter(c)

\* The catch block of the connect branch, then the return.
connectCatch(c) ==
    /\ port' = "null"
    /\ logged' = << "Error connecting" >>
    /\ conns' = [conns EXCEPT ![c] = "idle"]
    /\ UNCHANGED uiVars

\* A click on connectButton: connect() up to its first await.
connect ==
    /\ ~connectDisabled
    /\ \E c \in 1..MaxConnects : conns[c] = "idle"
    /\ IF port # "null"
       THEN disconnectReader(FreeConn)
       ELSE suspendConnect(FreeConn, "requestPort")
    /\ ConnectFrame

\* reader.cancel() settles: resolved, the code goes on with
\* reader.releaseLock(), a TypeError when reader has become null; rejected,
\* it goes to the catch and the finally.
cancelSettles(c) ==
    /\ conns[c] = "cancel"
    /\ \E resolved \in BOOLEAN :
          IF resolved /\ reader # "null"
          THEN disconnectWriter(c)
          ELSE disconnectFinally(c)
    /\ ConnectFrame

\* writer.close() settles.
closeSettles(c) ==
    /\ conns[c] = "close"
    /\ \E resolved \in BOOLEAN :
          IF resolved /\ writer # "null"
          THEN disconnectPort(c)
          ELSE disconnectFinally(c)
    /\ ConnectFrame

\* port.close() settles: resolved or rejected, the finally block runs next.
portCloseSettles(c) ==
    /\ conns[c] = "portClose"
    /\ disconnectFinally(c)
    /\ ConnectFrame

\* navigator.serial.requestPort() settles: with a port, which is assigned
\* and opened, or rejected (the user closed the chooser).
requestPortSettles(c) ==
    /\ conns[c] = "requestPort"
    /\ \E resolved \in BOOLEAN :
          IF resolved
          THEN /\ port' = "port"
               /\ conns' = [conns EXCEPT ![c] = "open"]
               /\ logged' = << >>
               /\ UNCHANGED << reader, writer, uiVars >>
          ELSE /\ connectCatch(c)
               /\ UNCHANGED << reader, writer >>
    /\ ConnectFrame

\* The ways lines 91-94 can go once port.open() has settled.
OpenOutcomes == { "opened", "openRejects", "getWriterThrows", "getReaderThrows" }

\* port.open() settles and connect() runs to its end. Reading
\* port.writable when port has become null is a TypeError.
openSettles(c) ==
    /\ conns[c] = "open"
    /\ \E outcome \in OpenOutcomes :
          CASE outcome = "opened" /\ port # "null" ->
                   /\ writer' = "writer"
                   /\ reader' = "reader"
                   /\ logged' = << "Connected successfully." >>
                   /\ setUIState(TRUE, FALSE)
                   /\ conns' = [conns EXCEPT ![c] = "idle"]
                   /\ UNCHANGED port
            [] outcome = "getReaderThrows" /\ port # "null" ->
                   /\ writer' = "writer"
                   /\ connectCatch(c)
                   /\ UNCHANGED reader
            [] OTHER ->
                   /\ connectCatch(c)
                   /\ UNCHANGED << reader, writer >>
    /\ ConnectFrame

\* What no step of the file input touches.
FileFrame == UNCHANGED << encVars, appVars, connVars, connectText,
                          connectDisabled, eraseDisabled, dumpDisabled,
                          progress, conns, ops >>

\* A change event on fileInput: with no file chosen binaryData is dropped,
\* with a file a FileReader starts reading it.
handleFileSelect ==
    /\ \E file \in BOOLEAN :
          IF ~file
          THEN /\ binaryData' = "null"
               /\ flashDisabled' = IF port # "null" THEN TRUE ELSE flashDisabled
               /\ UNCHANGED loads
          ELSE /\ loads < MaxLoads
               /\ loads' = loads + 1
               /\ UNCHANGED << binaryData, flashDisabled >>
    /\ logged' = << >>
    /\ FileFrame

\* fileReader.onload
onload ==
    /\ loads > 0
    /\ loads' = loads - 1
    /\ binaryData' = "data"
    /\ logged' = << "File selected" >>
    /\ flashDisabled' = IF port # "null" THEN FALSE ELSE flashDisabled
    /\ FileFrame

\* fileReader.onerror
onerror ==
    /\ loads > 0
    /\ loads' = loads - 1
    /\ logged' = << "Error reading file" >>
    /\ binaryData' = "null"
    /\ flashDisabled' = IF port # "null" THEN TRUE ELSE flashDisabled
    /\ FileFrame

\* parseInt(s) with no radix: 16 after a 0x prefix, otherwise 10.
parseIntNoRadix(s) ==
    LET t == StripLeadingSpace(s)
        u == IF Len(t) > 0 /\ t[1] \in {"+", "-"} THEN Tail(t) ELSE t
    IN  IF Len(u) >= 2 /\ u[1] = "0" /\ u[2] \in {"x", "X"}
        THEN parseInt(s, 16)
        ELSE parseInt(s, 10)

\* What dumpAddrInput can hold when the dump button is clicked.
DumpAddrInputs == { << "0", "x", "8", "0", "0", "0" >>, << "z", "z" >> }
\* What dumpLenInput can hold when the dump button is clicked. The lengths
\* stay below 16, so every dump here logs a single line of bytes.
DumpLenInputs ==
    { << "2" >>, << "0", "x", "3" >>, << "0" >>, << "-", "1" >>, << >> }

\* length <= 0 for a number that is not NaN.
NotPositive(x) == x.hi < 0 \/ (x.hi = 0 /\ x.lo = 0)

\* const totalSteps = 100, cut down to the bound.
totalSteps == MaxFlashSteps

\* The slot a new operation takes: the lowest idle one.
FreeOp ==
    CHOOSE o \in 1..MaxOps :
        ops[o] = NoOp /\ \A q \in 1..(o - 1) : ops[q] # NoOp

\* What no step of handleFlash, handleErase or handleDump touches.
OpFrame == UNCHANGED << encVars, appVars, connVars, binaryData, conns, loads >>

\* A handler returns at its entry guard with one line logged.
rejectOperation(line) ==
    /\ logged' = << line >>
    /\ UNCHANGED << uiVars, progress, ops >>

\* A handler passes its guard: the start line, setUIState(true, true),
\* updateProgress(0), and the call suspends at its first await.
startOperation(line, op) ==
    /\ \E o \in 1..MaxOps : ops[o] = NoOp
    /\ logged' = << line >>
    /\ setUIState(TRUE, TRUE)
    /\ updateProgress(0, 1)
    /\ ops' = [ops EXCEPT ![FreeOp] = op]

\* Variant of finishOperation: the updateProgress(0) left out.
finishOperationNoReset(o, lines) ==
    /\ logged' = lines
    /\ UNCHANGED progress
    /\ setUIState(TRUE, FALSE)
    /\ ops' = [ops EXCEPT ![o] = NoOp]

\* The end of a handler: the lines it logs last, updateProgress(0),
\* setUIState(true).
finishOperation(o, lines) ==
    /\ logged' = lines
    /\ updateProgress(0, 1)
    /\ setUIState(TRUE, FALSE)
    /\ ops' = [ops EXCEPT ![o] = NoOp]

\* A click on flashButton: handleFlash() up to its first await sleep(20).
handleFlash ==
    /\ ~flashDisabled
    /\ IF port = "null" \/ binaryData = "null"
       THEN rejectOperation("Error: Not connected or no file selected.")
       ELSE startOperation("Starting flash process (simulation)...",
                [kind |-> "flash", pc |-> "sleep", i |-> 0, n |-> totalSteps])
    /\ OpFrame

\* sleep(20) resolves in handleFlash: updateProgress(i / totalSteps * 100),
\* i++, and either the next sleep or the end of the handler.
flashStep(o) ==
    /\ ops[o].kind = "flash"
    /\ IF ops[o].i < ops[o].n
       THEN /\ updateProgress(ops[o].i * 100, ops[o].n)
            /\ ops' = [ops EXCEPT ![o].i = @ + 1]
            /\ logged' = << >>
            /\ UNCHANGED uiVars
       ELSE finishOperation(o, << "Flash complete." >>)
    /\ OpFrame

\* A click on eraseButton: handleErase() up to its await sleep(2000).
handleErase ==
    /\ ~eraseDisabled
    /\ IF port = "null"
       THEN rejectOperation("Error: Not connected.")
       ELSE startOperation("Starting erase process (simulation)...",
                [kind |-> "erase", pc |-> "sleep", i |-> 0, n |-> 0])
    /\ OpFrame

\* sleep(2000) resolves in handleErase: updateProgress(100) is overwritten by
\* updateProgress(0) before the handler returns.
eraseStep(o) ==
    /\ ops[o].kind = "erase"
    /\ finishOperation(o, << "Erase complete." >>)
    /\ OpFrame

\* A click on dumpButton: handleDump() up to `await writer?.write(command)`,
\* which awaits undefined when writer is null.
handleDump ==
    /\ ~dumpDisabled
    /\ \E a \in DumpAddrInputs, l \in DumpLenInputs :
          LET addr == parseIntNoRadix(a)
              len == parseIntNoRadix(l)
          IN  IF port = "null" \/ reader = "null"
              THEN rejectOperation("Error: Not connected.")
              ELSE IF IsNaN(addr) \/ IsNaN(len) \/ NotPositive(len)
              THEN rejectOperation("Error: Invalid address or length.")
              ELSE startOperation("Dumping",
                       [kind |-> "dump",
                        pc |-> IF writer = "null" THEN "noWrite" ELSE "write",
                        i |-> 0, n |-> len.lo])
    /\ OpFrame

\* The await of line 186 settles. Resolved (always, when nothing was
\* written): "Received data:", the first pass of the loop and its sleep(5).
\* Rejected: the catch logs the error and the finally block ends the handler.
writeSettles(o) ==
    /\ ops[o].kind = "dump"
    /\ ops[o].pc \in { "write", "noWrite" }
    /\ \E resolved \in BOOLEAN :
          IF resolved \/ ops[o].pc = "noWrite"
          THEN /\ logged' = << "Received data:" >>
               /\ updateProgress(100, ops[o].n)
               /\ ops' = [ops EXCEPT ![o].pc = "sleep"]
               /\ UNCHANGED uiVars
          ELSE finishOperation(o, << "Error during dump" >>)
    /\ OpFrame

\* sleep(5) resolves in handleDump: i++, then the next pass (a full line of
\* 16 bytes is logged first) or the last line, 'Dump complete.' and the
\* finally block.
dumpStep(o) ==
    /\ ops[o].kind = "dump"
    /\ ops[o].pc = "sleep"
    /\ LET i == ops[o].i + 1
       IN  IF i < ops[o].n
           THEN /\ logged' = IF i % 16 = 0 THEN << "hexString" >> ELSE << >>
                /\ updateProgress((i + 1) * 100, ops[o].n)
                /\ ops' = [ops EXCEPT ![o].i = i]
                /\ UNCHANGED uiVars
           ELSE finishOperation(o, << "hexString", "Dump complete." >>)
    /\ OpFrame

\* The timer or the write that call o waits for settles.
OpStep(o) == flashStep(o) \/ eraseStep(o) \/ writeSettles(o) \/ dumpStep(o)

\* The promise that call c of connect() waits for settles.
ConnectStep(c) ==
    \/ cancelSettles(c)
    \/ closeSettles(c)
    \/ portCloseSettles(c)
    \/ requestPortSettles(c)
    \/ openSettles(c)

\* ----------------------------------------------------------------------- App
\* useState("0x8000000")
InitialAddress == << "0", "x", "8", "0", "0", "0", "0", "0", "0" >>
\* useState(256)
InitialLength == 256

\* What the user types into the address box.
AddressInputs ==
    { << "0", "x", "1", "0", "0" >>, << "F", "F", "F", "0" >>,
      << "z", "z" >>, << "-", "1", "0" >> }
\* What the number input for the length holds ("" when cleared).
LengthInputs ==
    { << >>, << "2" >>, << "1", "7" >>, << "-", "1" >> }
formatOptions == << "BIN", "Intel HEX", "Motorola S-Record", "ASCII/Text" >>
Formats == { formatOptions[k] : k \in 1..Len(formatOptions) }

NoDownload == [name |-> << >>, mime |-> "none", data |-> << >>]
NoError == "none"

AppInit ==
    /\ connected = FALSE
    /\ format = "BIN"
    /\ address = InitialAddress
    /\ length = Num(0, InitialLength)
    /\ log = << >>
    /\ lastDownload = NoDownload
    /\ uncaught = NoError

\* The encoder variables before any encoder has been called.
EncIdle ==
    /\ bytes = << >>
    /\ baseAddr = Num(0, 0)
    /\ encoder = "none"
    /\ text = << >>

\* const connect = async () => { setConnected(true); setLog(...) }; the button
\* is disabled once connected.
AppConnect ==
    /\ ~connected
    /\ Len(log) < MaxLog
    /\ connected' = TRUE
    /\ log' = Append(log, << "[Mock] Connected." >>)
    /\ UNCHANGED << format, address, length, lastDownload, uncaught >>
    /\ UNCHANGED << encVars, serialVars >>

\* onChange={e => setAddress(e.target.value)}
setAddress ==
    /\ \E v \in AddressInputs \cup {InitialAddress} : address' = v
    /\ UNCHANGED << connected, format, length, log, lastDownload, uncaught >>
    /\ UNCHANGED << encVars, serialVars >>

\* onChange={e => setLength(parseInt(e.target.value || "0", 10))}
setLength ==
    /\ \E v \in LengthInputs :
          length' = parseInt(IF Len(v) = 0 THEN << "0" >> ELSE v, 10)
    /\ UNCHANGED << connected, format, address, log, lastDownload, uncaught >>
    /\ UNCHANGED << encVars, serialVars >>

\* onChange={e => setFormat(e.target.value as DumpFormat)}
setFormat ==
    /\ \E f \in Formats : format' = f
    /\ UNCHANGED << connected, address, length, log, lastDownload, uncaught >>
    /\ UNCHANGED << encVars, serialVars >>

\* dump(): len = Number(length) | 0; new Uint8Array(len) throws a RangeError
\* for len < 0; bytes[i] = (i * 37 + 0x5a) & 0xff.
dumpLen == ToInt32(length)
dumpThrows == dumpLen < 0
dumpBytes == [k \in 1..dumpLen |-> ((k - 1) * 37 + 90) % 256]

\* const base = parseInt(address, 16) || 0
downloadBase == OrZero(parseInt(address, 16))

\* Variant of downloadBlob: the blob is built from data without its last element.
downloadBlobTruncated(name, mime, data) ==
    [name |-> name, mime |-> mime, data |-> SubSeq(data, 1, Len(data) - 1)]

\* downloadBlob(name, mime, data): the blob offered to the browser.
downloadBlob(name, mime, data) == [name |-> name, mime |-> mime, data |-> data]

\* handleDownload, the 'Dump & Download' click (button disabled unless
\* connected).  Its awaits are on already settled promises, so no other
\* handler runs in between.  When dump() throws, the returned promise rejects
\* and nothing else happens.
handleDownload ==
    /\ connected
    /\ UNCHANGED serialVars
    /\ IF dumpThrows
       THEN /\ uncaught' = "RangeError"
            /\ UNCHANGED << connected, format, address, length, log, lastDownload >>
            /\ UNCHANGED encVars
       ELSE /\ Len(log) + 2 <= MaxLog
            /\ uncaught' = NoError
            /\ log' = log \o << << "[Mock] Dumped", dumpLen, address >>,
                               << "[OK] Downloaded dump as", format >> >>
            /\ CASE format = "BIN" ->
                      /\ lastDownload' = downloadBlob(<< "dump_" >> \o address \o << ".bin" >>,
                                                       "application/octet-stream", dumpBytes)
                      /\ UNCHANGED encVars
                 [] format = "Intel HEX" ->
                      /\ bytes' = dumpBytes
                      /\ baseAddr' = downloadBase
                      /\ encoder' = "toIntelHex"
                      /\ text' = toIntelHex(dumpBytes, downloadBase)
                      /\ lastDownload' = downloadBlob(<< "dump_" >> \o address \o << ".hex" >>,
                                                       "text/plain", text')
                 [] format = "Motorola S-Record" ->
                      /\ bytes' = dumpBytes
                      /\ baseAddr' = downloadBase
                      /\ encoder' = "toSrec"
                      /\ text' = toSrec(dumpBytes, downloadBase)
                      /\ lastDownload' = downloadBlob(<< "dump_" >> \o address \o << ".srec" >>,
                                                       "text/plain", text')
                 [] format = "ASCII/Text" ->
                      /\ bytes' = dumpBytes
                      /\ baseAddr' = downloadBase
                      /\ encoder' = "toHexDump"
                      /\ text' = toHexDump(dumpBytes)
                      /\ lastDownload' = downloadBlob(<< "dump_" >> \o address \o << ".txt" >>,
                                                       "text/plain", text')
            /\ UNCHANGED << connected, format, address, length >>

AppNext ==
    \/ AppConnect
    \/ setAddress
    \/ setLength
    \/ setFormat
    \/ handleDownload

\* The App from its first render.
AppSpecInit == AppInit /\ EncIdle /\ SerialInit

AppSpec == AppSpecInit /\ [][AppNext]_vars

\* ------------------------------------------------- the serial UI on its own
SerialNext ==
    \/ connect
    \/ \E c \in 1..MaxConnects : ConnectStep(c)
    \/ handleFileSelect
    \/ onload
    \/ onerror
    \/ handleFlash
    \/ handleErase
    \/ handleDump
    \/ \E o \in 1..MaxOps : OpStep(o)

\* The serial UI alone: the App and the encoders stay as they start.
SerialSpecInit == SerialInit /\ AppInit /\ EncIdle
SerialSpec == SerialSpecInit /\ [][SerialNext]_vars

\* Timers and the serial write settle: a call that waits is resumed.
SerialFairSpec ==
    SerialSpec /\ \A o \in 1..MaxOps : WF_vars(OpStep(o))

\* --------------------------------------------------- the encoders on their own
EncInit ==
    /\ \E mul \in Multipliers, off \in Offsets, len \in 0..MaxLen :
          bytes = Pattern(mul, off, len)
    /\ baseAddr \in BaseAddrs
    /\ encoder = "none"
    /\ text = << >>

CallToHexDump ==
    /\ encoder' = "toHexDump"
    /\ text' = toHexDump(bytes)
    /\ UNCHANGED << bytes, baseAddr >>
    /\ UNCHANGED << appVars, serialVars >>

CallToIntelHex ==
    /\ encoder' = "toIntelHex"
    /\ text' = toIntelHex(bytes, baseAddr)
    /\ UNCHANGED << bytes, baseAddr >>
    /\ UNCHANGED << appVars, serialVars >>

CallToSrec ==
    /\ encoder' = "toSrec"
    /\ text' = toSrec(bytes, baseAddr)
    /\ UNCHANGED << bytes, baseAddr >>
    /\ UNCHANGED << appVars, serialVars >>

Init == EncInit /\ AppInit /\ SerialInit

Next ==
    \/ CallToHexDump
    \/ CallToIntelHex
    \/ CallToSrec

\* Each encoder applied, any number of times, to a buffer and a base address.
Spec == Init /\ [][Next]_vars

\* ------------------------------------------------- reading the output back
\* The positions of the newline characters of a text.
NewlineAt(t) == {k \in 1..Len(t) : t[k] = "\n"}

\* The position of the j-th newline (j from 1); 0 for j = 0 and Len(t) + 1
\* past the last one.
NewlinePos(t, j) ==
    IF j = 0 THEN 0
    ELSE IF j > Cardinality(NewlineAt(t)) THEN Len(t) + 1
    ELSE CHOOSE p \in NewlineAt(t) :
            Cardinality({q \in NewlineAt(t) : q < p}) = j - 1

\* The lines of a text: the pieces between "\n".  The empty text has no line.
Lines(t) ==
    IF Len(t) = 0 THEN << >>
    ELSE [j \in 1..(Cardinality(NewlineAt(t)) + 1) |->
             SubSeq(t, NewlinePos(t, j - 1) + 1, NewlinePos(t, j) - 1)]

UpperHexChars == {"0", "1", "2", "3", "4", "5", "6", "7", "8", "9",
                  "A", "B", "C", "D", "E", "F"}
LowerHexLetters == {"a", "b", "c", "d", "e", "f"}
LowerHexChars == {"0", "1", "2", "3", "4", "5", "6", "7", "8", "9"}
                 \cup LowerHexLetters

\* The value of a hex digit of either case, -1 for any other character.
HexVal(c) ==
    CASE c = "0" -> 0 [] c = "1" -> 1 [] c = "2" -> 2 [] c = "3" -> 3
      [] c = "4" -> 4 [] c = "5" -> 5 [] c = "6" -> 6 [] c = "7" -> 7
      [] c = "8" -> 8 [] c = "9" -> 9
      [] c \in {"a", "A"} -> 10 [] c \in {"b", "B"} -> 11
      [] c \in {"c", "C"} -> 12 [] c \in {"d", "D"} -> 13
      [] c \in {"e", "E"} -> 14 [] c \in {"f", "F"} -> 15
      [] OTHER -> 0 - 1

IsHexText(cs) ==
    /\ Len(cs) % 2 = 0
    /\ \A k \in 1..Len(cs) : HexVal(cs[k]) >= 0

\* The bytes a run of hex digit pairs spells.
HexBytes(cs) ==
    [k \in 1..(Len(cs) \div 2) |-> HexVal(cs[2 * k - 1]) * 16 + HexVal(cs[2 * k])]

\* ceil(n / 16)
Chunks(n) == (n + ChunkSize - 1) \div ChunkSize

\* The k-th chunk (k from 0) of the input buffer.
Chunk(k) ==
    SubSeq(bytes, ChunkSize * k + 1,
           IF ChunkSize * (k + 1) < Len(bytes) THEN ChunkSize * (k + 1) ELSE Len(bytes))

Drop(cs, n) == SubSeq(cs, n + 1, Len(cs))

\* The data records (type 00) of an Intel HEX text, as byte sequences
\* LL AH AL TT data.. CC.
IsIhexData(l) == Len(l) >= 11 /\ l[1] = ":" /\ l[8] = "0" /\ l[9] = "0"
IhexDataRecords(t) == SelectSeq(Lines(t), IsIhexData)

\* The S3 records of an S-record text, as byte sequences count a3 a2 a1 a0 data.. cks.
IsS3(l) == Len(l) >= 2 /\ l[1] = "S" /\ l[2] = "3"
S3Records(t) == SelectSeq(Lines(t), IsS3)

\* ------------------------------------------------------------------- claims

\* C1: in every data record toIntelHex produces, the length byte, the two
\* address bytes, the record type, the data bytes and the checksum byte add
\* up to 0 mod 256.
C1_IhexChecksumSumsToZero ==
    encoder = "toIntelHex" =>
        LET recs == IhexDataRecords(text)
        IN  /\ Len(recs) = Chunks(Len(bytes))
            /\ \A k \in 1..Len(recs) :
                  /\ IsHexText(Tail(recs[k]))
                  /\ reduceSum(HexBytes(Tail(recs[k])), 0) % 256 = 0

\* C1 witness: toIntelHex has run on a three-chunk buffer whose records cross
\* the 64 KB boundary.
C1_Witness ==
    /\ encoder = "toIntelHex"
    /\ Len(bytes) = 33
    /\ baseAddr = Num(1, 65528)
    /\ Len(IhexDataRecords(text)) = 3

\* C2: in every S3 record toSrec produces, the byte count, the four address
\* bytes, the data bytes and the checksum byte add up to 0xFF mod 256.
C2_SrecChecksumSumsToFF ==
    encoder = "toSrec" =>
        LET recs == S3Records(text)
        IN  /\ Len(recs) = Chunks(Len(bytes))
            /\ \A k \in 1..Len(recs) :
                  /\ IsHexText(Drop(recs[k], 2))
                  /\ reduceSum(HexBytes(Drop(recs[k], 2)), 0) % 256 = 255

\* C2 witness: toSrec has run on a three-chunk buffer at 0xFFFFFFF0.
C2_Witness ==
    /\ encoder = "toSrec"
    /\ Len(bytes) = 33
    /\ baseAddr = Num(65535, 65520)
    /\ Len(S3Records(text)) = 3

\* C3: every S3 line toSrec produces is entirely uppercase: no character of
\* the byte count, the address and data hex or the checksum is a lowercase
\* hex digit.
C3_SrecAllUppercase ==
    encoder = "toSrec" =>
        \A k \in 1..Len(S3Records(text)) :
            \A j \in 1..Len(S3Records(text)[k]) :
                S3Records(text)[k][j] \notin LowerHexLetters

\* C4 as stated: for B = [0xAA, 0xBB] at 0x100 toSrec returns two lines, the
\* first being S30500000100AABB followed by a two-digit checksum, the second
\* S70500000000FA.
C4_AsStated ==
    (encoder = "toSrec" /\ bytes = << 170, 187 >> /\ baseAddr = Num(0, 256)) =>
        LET ls == Lines(text)
        IN  /\ Len(ls) = 2
            /\ Len(ls[1]) = 18
            /\ SubSeq(ls[1], 1, 16) = << "S", "3", "0", "5", "0", "0", "0", "0", "0", "1", "0", "0", "A", "A", "B", "B" >>
            /\ ls[2] = SrecTerminator

\* C4 amended: for B = [0xAA, 0xBB] at 0x100 toSrec returns exactly the two
\* lines S30700000100AABB92 and S70500000000FA (byte count 07 = 4 address
\* bytes + 2 data bytes + 1 checksum byte).
C4_SrecConcreteCase ==
    (encoder = "toSrec" /\ bytes = << 170, 187 >> /\ baseAddr = Num(0, 256)) =>
        text = << "S", "3", "0", "7", "0", "0", "0", "0", "0", "1", "0", "0", "A", "A", "B", "B", "9", "2" >> \o NL \o SrecTerminator

\* C4 witness: toSrec has run on [0xAA, 0xBB] at 0x100.
C4_Witness ==
    /\ encoder = "toSrec"
    /\ bytes = << 170, 187 >>
    /\ baseAddr = Num(0, 256)
    /\ Len(Lines(text)) = 2

\* C5: toIntelHex returns ceil(len(B)/16) data records and then the line
\* :00000001FF; the k-th data record is :LLAAAA00<data><CC> in uppercase hex
\* with LL the chunk length (16 except possibly for the last chunk), AAAA =
\* (A + 16k) mod 65536 and <data> the chunk's bytes in order; every record
\* but the last has type 00, also when A + len(B) exceeds 0xFFFF; an empty B
\* gives :00000001FF alone.
C5_IhexStructure ==
    encoder = "toIntelHex" =>
        LET ls == Lines(text)
            n  == Chunks(Len(bytes))
        IN  /\ Len(ls) = n + 1
            /\ ls[n + 1] = << ":", "0", "0", "0", "0", "0", "0", "0", "1", "F", "F" >>
            /\ \A k \in 0..(n - 1) :
                  LET l == ls[k + 1]
                      p == HexBytes(Tail(l))
                      c == Chunk(k)
                  IN  /\ l[1] = ":"
                      /\ \A j \in 2..Len(l) : l[j] \in UpperHexChars
                      /\ Len(l) = 1 + 2 * (Len(c) + 5)
                      /\ p[1] = Len(c)
                      /\ Len(c) = IF k < n - 1 THEN 16 ELSE Len(bytes) - 16 * (n - 1)
                      /\ p[2] * 256 + p[3] = (baseAddr.lo + 16 * k) % Word
                      /\ p[4] = 0
                      /\ SubSeq(p, 5, 4 + Len(c)) = c
            /\ (Len(bytes) = 0 => text = << ":", "0", "0", "0", "0", "0", "0", "0", "1", "F", "F" >>)

\* C5 witness: toIntelHex has run on 33 bytes at 0xFFF0, so that the second
\* and third records lie beyond 0xFFFF.
C5_Witness ==
    /\ encoder = "toIntelHex"
    /\ Len(bytes) = 33
    /\ baseAddr = Num(0, 65520)
    /\ Len(Lines(text)) = 4

\* The address field of an S3 record with bytes p, as a [hi, lo] number.
S3Address(p) == Num(p[2] * 256 + p[3], p[4] * 256 + p[5])

\* What C6 says of the S3 lines apart from the address field: the line
\* count, the fixed last line, the byte count and the data of each record.
S3Shape(ls, n) ==
    /\ Len(ls) = n + 1
    /\ ls[n + 1] = << "S", "7", "0", "5", "0", "0", "0", "0", "0", "0", "0", "0", "F", "A" >>
    /\ \A k \in 0..(n - 1) :
          LET l == ls[k + 1]
              p == HexBytes(Drop(l, 2))
              c == Chunk(k)
          IN  /\ IsS3(l)
              /\ IsHexText(Drop(l, 2))
              /\ Len(p) = 4 + Len(c) + 2
              /\ p[1] = 4 + Len(c) + 1
              /\ SubSeq(p, 6, 5 + Len(c)) = c

\* C6 as stated: toSrec returns ceil(len(B)/16) S3 lines and then the line
\* S70500000000FA; in the k-th S3 record the address field is the 4-byte
\* big-endian encoding of A + 16k, the data is the k-th chunk and the byte
\* count is 4 + (data bytes) + 1; no other line is emitted.
C6_AsStated ==
    encoder = "toSrec" =>
        LET ls == Lines(text)
            n  == Chunks(Len(bytes))
        IN  /\ S3Shape(ls, n)
            /\ \A k \in 0..(n - 1) :
                  S3Address(HexBytes(Drop(ls[k + 1], 2))) = NumAdd(baseAddr, 16 * k)

\* C6 amended: as C6, with the address field being the 4-byte big-endian
\* encoding of (A + 16k) mod 2^32, which is A + 16k whenever that fits in
\* four bytes.
C6_SrecStructure ==
    encoder = "toSrec" =>
        LET ls == Lines(text)
            n  == Chunks(Len(bytes))
        IN  /\ S3Shape(ls, n)
            /\ \A k \in 0..(n - 1) :
                  LET a == NumAdd(baseAddr, 16 * k)
                  IN  S3Address(HexBytes(Drop(ls[k + 1], 2))) = Num(a.hi % Word, a.lo)

\* C6 witness: toSrec has run on 33 bytes at 0xFFFFFFF0, so that the second
\* and third records lie beyond 0xFFFFFFFF.
C6_Witness ==
    /\ encoder = "toSrec"
    /\ Len(bytes) = 33
    /\ baseAddr = Num(65535, 65520)
    /\ Len(Lines(text)) = 4

RECURSIVE Concat(_)
Concat(ss) == IF Len(ss) = 0 THEN << >> ELSE Head(ss) \o Concat(Tail(ss))

IhexAddress(l) == HexBytes(Tail(l))[2] * 256 + HexBytes(Tail(l))[3]
IhexPayload(l) == SubSeq(HexBytes(Tail(l)), 5, Len(HexBytes(Tail(l))) - 1)
IhexBefore(l, m) == IhexAddress(l) < IhexAddress(m)

SrecAddress(l) == S3Address(HexBytes(Drop(l, 2)))
SrecPayload(l) == SubSeq(HexBytes(Drop(l, 2)), 6, Len(HexBytes(Drop(l, 2))) - 1)
SrecBefore(l, m) ==
    \/ SrecAddress(l).hi < SrecAddress(m).hi
    \/ SrecAddress(l).hi = SrecAddress(m).hi /\ SrecAddress(l).lo < SrecAddress(m).lo

\* The data records ordered by address field, payloads concatenated.
IhexReassembled == Concat([k \in 1..Len(IhexDataRecords(text)) |->
    IhexPayload(SortSeq(IhexDataRecords(text), IhexBefore)[k])])
SrecReassembled == Concat([k \in 1..Len(S3Records(text)) |->
    SrecPayload(SortSeq(S3Records(text), SrecBefore)[k])])

\* The address field of the last record is not below that of the first:
\* (A mod 2^16) + 16 * (records - 1) < 2^16, resp. the same with 2^32.
LastChunkOffset == IF Len(bytes) = 0 THEN 0 ELSE 16 * (Chunks(Len(bytes)) - 1)
NoWrap16 == baseAddr.lo + LastChunkOffset < Word
NoWrap32 == NumAdd(Num(baseAddr.hi % Word, baseAddr.lo), LastChunkOffset).hi < Word

\* C7 as stated: for every B and A, the data records of toIntelHex(B, A),
\* resp. the S3 records of toSrec(B, A), ordered by address field, have
\* payloads that concatenate to B.
C7_AsStated ==
    /\ encoder = "toIntelHex" => IhexReassembled = bytes
    /\ encoder = "toSrec" => SrecReassembled = bytes

\* C7 amended: the same, for those B and A for which the address field does
\* not wrap inside the output: (A mod 2^16) + 16 * (records - 1) < 2^16 for
\* toIntelHex, (A mod 2^32) + 16 * (records - 1) < 2^32 for toSrec.
C7_RoundTrip ==
    /\ (encoder = "toIntelHex" /\ NoWrap16) => IhexReassembled = bytes
    /\ (encoder = "toSrec" /\ NoWrap32) => SrecReassembled = bytes

\* C7 witness: toIntelHex has run on 33 bytes at 0x100 and its three data
\* records reassemble to the input.
C7_Witness ==
    /\ encoder = "toIntelHex"
    /\ Len(bytes) = 33
    /\ baseAddr = Num(0, 256)
    /\ NoWrap16
    /\ Len(IhexDataRecords(text)) = 3
    /\ IhexReassembled = bytes

\* C9: toHexDump returns ceil(len(B)/16) lines joined by newline, the j-th
\* holding min(16, remaining) two-digit lowercase hex tokens for the bytes of
\* the j-th chunk in order, separated by single spaces, with no padding and
\* no trailing separator; an empty B gives the empty string.
C9_HexDumpStructure ==
    encoder = "toHexDump" =>
        LET ls == Lines(text)
            n  == Chunks(Len(bytes))
        IN  /\ Len(ls) = n
            /\ (Len(bytes) = 0 => text = << >>)
            /\ \A j \in 0..(n - 1) :
                  LET l == ls[j + 1]
                      c == Chunk(j)
                  IN  /\ Len(c) = IF Len(bytes) - 16 * j < 16
                                  THEN Len(bytes) - 16 * j ELSE 16
                      /\ Len(l) = 3 * Len(c) - 1
                      /\ \A m \in 1..Len(c) :
                            /\ l[3 * m - 2] \in LowerHexChars
                            /\ l[3 * m - 1] \in LowerHexChars
                            /\ HexVal(l[3 * m - 2]) * 16 + HexVal(l[3 * m - 1]) = c[m]
                            /\ (m < Len(c) => l[3 * m] = " ")

\* C9 witness: toHexDump has run on 33 bytes and returned three lines, the
\* last of one token.
C9_Witness ==
    /\ encoder = "toHexDump"
    /\ Len(bytes) = 33
    /\ Len(Lines(text)) = 3
    /\ Len(Lines(text)[3]) = 2

\* C10 as stated: for B = 00 01 .. 0F at address 0 toIntelHex returns the two
\* lines :100000000001020304050607080910111213141F and :00000001FF.
C10_AsStated ==
    (encoder = "toIntelHex" /\ bytes = Pattern(1, 0, 16) /\ baseAddr = Num(0, 0)) =>
        Lines(text) =
            << << ":", "1", "0", "0", "0", "0", "0", "0", "0", "0", "0", "0",
                  "1", "0", "2", "0", "3", "0", "4", "0", "5", "0", "6", "0",
                  "7", "0", "8", "0", "9", "1", "0", "1", "1", "1", "2", "1",
                  "3", "1", "4", "1", "F" >>,
               << ":", "0", "0", "0", "0", "0", "0", "0", "1", "F", "F" >> >>

\* C10 amended: for B = 00 01 .. 0F at address 0 toIntelHex returns the two
\* lines :10000000000102030405060708090A0B0C0D0E0F78 and :00000001FF.
C10_IhexConcreteCase ==
    (encoder = "toIntelHex" /\ bytes = Pattern(1, 0, 16) /\ baseAddr = Num(0, 0)) =>
        Lines(text) =
            << << ":", "1", "0", "0", "0", "0", "0", "0", "0", "0", "0", "0",
                  "1", "0", "2", "0", "3", "0", "4", "0", "5", "0", "6", "0",
                  "7", "0", "8", "0", "9", "0", "A", "0", "B", "0", "C", "0",
                  "D", "0", "E", "0", "F", "7", "8" >>,
               << ":", "0", "0", "0", "0", "0", "0", "0", "1", "F", "F" >> >>

\* C10 witness: toIntelHex has run on 00 01 .. 0F at address 0.
C10_Witness ==
    /\ encoder = "toIntelHex"
    /\ bytes = Pattern(1, 0, 16)
    /\ baseAddr = Num(0, 0)
    /\ Len(Lines(text)) = 2

\* The address box holds no number, or the length is negative.
InvalidNumericInput == IsNaN(parseInt(address, 16)) \/ ToInt32(length) < 0

\* C8: when handleDownload runs with a non-numeric address or a negative
\* length, no encoder runs and no download is produced.
C8_InvalidInputRejected ==
    [][(InvalidNumericInput /\ handleDownload) =>
           (UNCHANGED encVars /\ lastDownload' = lastDownload)]_vars

\* C11: with format BIN, handleDownload hands the dumped bytes B to the
\* download exactly as dump() returned them (same length, same bytes, also
\* for the empty B), calls no encoder, and the data does not depend on the
\* address.
C11_BinaryIdentity ==
    [][(handleDownload /\ format = "BIN" /\ ~dumpThrows) =>
           /\ lastDownload'.mime = "application/octet-stream"
           /\ lastDownload'.data = dumpBytes
           /\ Len(lastDownload'.data) = ToInt32(length)
           /\ \A k \in 1..Len(lastDownload'.data) :
                 lastDownload'.data[k] = ((k - 1) * 37 + 90) % 256
           /\ UNCHANGED encVars]_vars

\* C11 witness: a BIN download of 17 bytes made with the address box holding
\* FFF0, no encoder having run.
C11_Witness ==
    /\ lastDownload.mime = "application/octet-stream"
    /\ lastDownload.name = << "dump_", "F", "F", "F", "0", ".bin" >>
    /\ Len(lastDownload.data) = 17
    /\ encoder = "none"

\* The calls of handleFlash, handleErase and handleDump that are in progress.
InProgress == { o \in 1..MaxOps : ops[o] # NoOp }

\* C13: at most one of handleFlash, handleErase and handleDump is in progress
\* at any time, and while one is, the flash, erase and dump buttons are all
\* disabled.
C13_MutualExclusion ==
    /\ Cardinality(InProgress) <= 1
    /\ InProgress # {} => (flashDisabled /\ eraseDisabled /\ dumpDisabled)

\* C14: an enabled flash, erase or dump button, or a connect button reading
\* 'Disconnect', implies that port is non-null; an enabled flash button
\* implies that binaryData is non-null as well.
C14_EnabledImpliesPort ==
    /\ (~flashDisabled \/ ~eraseDisabled \/ ~dumpDisabled
            \/ connectText = "Disconnect") => port # "null"
    /\ ~flashDisabled => binaryData # "null"

\* No call of connect() is in progress.
NoConnectInProgress == \A c \in 1..MaxConnects : conns[c] = "idle"

\* C15: whenever no connect() call is in progress, port = null implies
\* reader = null and writer = null.
C15_ResourcesConsistent ==
    (NoConnectInProgress /\ port = "null") => (reader = "null" /\ writer = "null")

\* The lines the last step logged, as a set.
LoggedLines == { logged[k] : k \in 1..Len(logged) }

\* Call o of an operation handler returns in this step.
Finishes(o) == ops[o] # NoOp /\ ops'[o] = NoOp

\* C16: every handleFlash, handleErase or handleDump call that has passed its
\* entry guard eventually returns, and the step in which it returns leaves
\* the progress bar at 0 and the UI connected and not busy (connect button
\* reading 'Disconnect' and enabled, erase and dump enabled, flash enabled
\* exactly when a file is loaded); a handleDump whose write rejects returns
\* having logged 'Error during dump' and not 'Dump complete.'.
C16_OperationsFinish ==
    /\ \A o \in 1..MaxOps : (ops[o] # NoOp) ~> (ops[o] = NoOp)
    /\ [][\A o \in 1..MaxOps : Finishes(o) =>
              /\ progress' = 0
              /\ connectText' = "Disconnect"
              /\ ~connectDisabled'
              /\ ~eraseDisabled'
              /\ ~dumpDisabled'
              /\ flashDisabled' = (binaryData' = "null")
              /\ (ops[o].kind = "dump" /\ ops[o].pc = "write") =>
                    /\ "Error during dump" \in LoggedLines'
                    /\ "Dump complete." \notin LoggedLines']_vars

\* A handleDump call has just returned through its catch block after the
\* write was rejected, and no other operation is running.
C16_Witness ==
    /\ logged = << "Error during dump" >>
    /\ InProgress = {}
    /\ progress = 0
    /\ ~connectDisabled

====
